---- MODULE Spec2Model ----
(***************************************************************************)
(* Model of pact_test_utils: the provider-state registry (PactStates),     *)
(* the verification driver (verify_pacts) and the broker publisher         *)
(* (PactBrokerInterface, main).                                            *)
(*                                                                         *)
(* External collaborators are modelled by every outcome their protocol     *)
(* allows: a mock factory call or its __enter__ may raise; a mock's        *)
(* __exit__ may return a false value, return a true value (which, by the   *)
(* context-manager protocol that ExitStack honours, suppresses the         *)
(* exception in flight) or raise; a setup callback may return or raise;    *)
(* the verification routine calls the provider-state callback for names   *)
(* of its own choosing and returns or raises; the broker answers a PUT     *)
(* with any status.  An exception raised inside the provider-state         *)
(* callback is taken to leave the verification routine unchanged.          *)
(***************************************************************************)
EXTENDS Integers, Sequences, FiniteSets, TLC

(* ------------------------------ bounds -------------------------------- *)
\* how many setup callbacks the verification routine triggers in one call
MaxSetups == 2
\* longest pluralized providerStates list of a verification context
MaxStates == 2
\* most contract files found by one publisher run
MaxFiles == 2

(* ------------------------------ domains ------------------------------- *)
Consumers == {"Orders", "Billing"}
StateNames == {"stateA", "stateB"}
Funcs == {"f1", "f2"}

Range(s) == {s[i] : i \in DOMAIN s}

RECURSIVE Reverse(_)
Reverse(s) == IF s = <<>> THEN <<>> ELSE Append(Reverse(Tail(s)), Head(s))

SeqsUpTo(S, n) == UNION {[1..k -> S] : k \in 0..n}

\* mock lists the registrations of the verification runs give
MockLists == {<<>>, <<"m1">>, <<"m2", "m1">>, <<"m2", "m3", "m1">>}

(* ----------------------------- exceptions ----------------------------- *)
\* an exception is its type and its message, the message kept as the
\* parts the code formats it from
NoException == [type |-> "None", msg |-> <<>>]
Returned == [type |-> "returned", msg |-> <<>>]

ProviderStateError(consumer, state_name) ==
    [type |-> "ProviderStateError",
     msg |-> <<"Missing state provider for consumer:\n@pact_state('",
               consumer, "', '", state_name, "')">>]

\* variant: the message also states the number of elements
AssertMessageWithCount(states) ==
    <<"Pact interaction must have exactly one state!", ToString(Len(states))>>

\* the message of the assert statement of verify_pacts
AssertMessage(states) == <<"Pact interaction must have exactly one state!">>

AssertionError(states) == [type |-> "AssertionError", msg |-> AssertMessage(states)]

MockError(kind, m) == [type |-> "MockError", msg |-> <<kind, m>>]
SetupError(f) == [type |-> "SetupError", msg |-> <<f>>]
VerificationError == [type |-> "VerificationError", msg |-> <<>>]
\* contextlib raises this from __enter__ when the generator ends before its yield
GeneratorDidntYield == [type |-> "RuntimeError", msg |-> <<"generator didn't yield">>]

(* ------------------------------ registry ------------------------------ *)
EmptyRegistry == [k \in {} |-> [func |-> "", mocks |-> <<>>]]

\* variant: a missing key gives an empty entry instead of an error
_get_Default(reg, consumer, state_name) ==
    IF <<consumer, state_name>> \in DOMAIN reg
    THEN [ok |-> TRUE, func |-> reg[<<consumer, state_name>>].func,
          mocks |-> reg[<<consumer, state_name>>].mocks, exc |-> NoException]
    ELSE [ok |-> TRUE, func |-> "", mocks |-> <<>>, exc |-> NoException]

\* PactStates._get: the entry, or ProviderStateError on KeyError
_get(reg, consumer, state_name) ==
    IF <<consumer, state_name>> \in DOMAIN reg
    THEN [ok |-> TRUE, func |-> reg[<<consumer, state_name>>].func,
          mocks |-> reg[<<consumer, state_name>>].mocks, exc |-> NoException]
    ELSE [ok |-> FALSE, func |-> "", mocks |-> <<>>,
          exc |-> ProviderStateError(consumer, state_name)]

\* variant: an existing entry is kept (setdefault)
_set_KeepFirst(reg, consumer, state_name, func, mocks) ==
    IF <<consumer, state_name>> \in DOMAIN reg THEN reg
    ELSE [k \in DOMAIN reg \cup {<<consumer, state_name>>} |->
             IF k = <<consumer, state_name>>
             THEN [func |-> func, mocks |-> mocks] ELSE reg[k]]

\* PactStates._set: dictionary assignment
_set(reg, consumer, state_name, func, mocks) ==
    [k \in DOMAIN reg \cup {<<consumer, state_name>>} |->
        IF k = <<consumer, state_name>>
        THEN [func |-> func, mocks |-> mocks] ELSE reg[k]]

\* the optional mocks argument of add
Omitted == [given |-> FALSE, value |-> <<>>]
Given(l) == [given |-> TRUE, value |-> l]

\* add: mocks = [] when the argument is None
DefaultMocks(arg) == IF arg.given THEN arg.value ELSE <<>>

\* a callable is a plain function or the wrapper add builds around one
Plain(f) == [kind |-> "function", calls |-> f]

\* variant: the decorator hands back func itself
inner_Identity(func) == func

\* add.outer's return value: inner, a functools.wraps wrapper that calls func
inner(func) == [kind |-> "wrapper", calls |-> func.calls]

(* ------------------------------ ExitStack ----------------------------- *)
\* variant: the entered context manager goes to the bottom of the stack
enter_context_Front(stack, m) == <<m>> \o stack

\* ExitStack.enter_context: push the entered context manager
enter_context(stack, m) == Append(stack, m)

\* variant: callbacks run first-in first-out
NextExitFifo(stack) == 1

\* ExitStack.__exit__: callbacks run last-in first-out
NextExit(stack) == Len(stack)

\* the stack without its i-th element
Without(stack, i) ==
    [j \in 1..(Len(stack) - 1) |-> IF j < i THEN stack[j] ELSE stack[j + 1]]

(* ------------------------------- state -------------------------------- *)
VARIABLES
    registry,       \* PactStates.state_registry
    last_reg,       \* history: per key, the arguments of its last add
    result,         \* the last registry API call and what it gave back
    pc,             \* position of the verify_pacts call
    interaction,    \* pact_verifier.interaction while the state name is resolved
    consumer_name,  \* local of verify_pacts
    state_name,     \* local of verify_pacts
    mocks,          \* the list enable_mocks iterates
    idx,            \* position of that iteration
    stack,          \* the ExitStack: entered mocks, bottom first
    pending,        \* exception in flight
    yielded,        \* enable_mocks reached its yield
    body_exc,       \* exception raised by the body of the with statement
    called,         \* mock factories called, in order
    acquired,       \* mocks entered, in order
    released,       \* mocks exited, in order
    exit_interfered,\* some mock exit suppressed an exception or raised
    setups,         \* setup callbacks invoked, in order
    verify_state,   \* pact_verifier.verify: not_invoked, running, ended
    outcome,        \* how verify_pacts ended
    lookup,         \* the key of the call's last registry lookup
    pub_pc,         \* position of the publisher's main
    publication,    \* find_pacts' result, in iteration order
    tagged,         \* consumers already tagged
    puts,           \* PUT requests issued, in order, with the status answered
    pub_outcome     \* how main ended

regVars == <<registry, last_reg, result>>
callVars == <<pc, interaction, consumer_name, state_name, mocks, idx, stack, pending,
              yielded, body_exc, called, acquired, released, exit_interfered, setups,
              verify_state, outcome, lookup>>
pubVars == <<pub_pc, publication, tagged, puts, pub_outcome>>
vars == <<regVars, callVars, pubVars>>

NoInteraction == [consumer |-> "", providerState |-> "None", providerStates |-> <<>>]
NoResult == [op |-> "none", consumer |-> "", state_name |-> "", func |-> Plain(""),
             mocks |-> <<>>, value |-> Plain(""), replaced |-> FALSE,
             exc |-> NoException]

\* nothing in flight and nothing observed of an earlier call
FreshCall ==
    /\ mocks' = <<>>
    /\ idx' = 1
    /\ stack' = <<>>
    /\ pending' = NoException
    /\ yielded' = FALSE
    /\ body_exc' = NoException
    /\ called' = <<>>
    /\ acquired' = <<>>
    /\ released' = <<>>
    /\ exit_interfered' = FALSE
    /\ setups' = <<>>
    /\ verify_state' = "not_invoked"
    /\ lookup' = <<>>

\* no verify_pacts call in progress
CallIdle ==
    /\ pc' = "idle"
    /\ interaction' = NoInteraction
    /\ consumer_name' = ""
    /\ state_name' = ""
    /\ outcome' = NoException
    /\ FreshCall

Init ==
    /\ registry = EmptyRegistry
    /\ last_reg = EmptyRegistry
    /\ result = NoResult
    /\ pc = "idle"
    /\ interaction = NoInteraction
    /\ consumer_name = ""
    /\ state_name = ""
    /\ mocks = <<>>
    /\ idx = 1
    /\ stack = <<>>
    /\ pending = NoException
    /\ yielded = FALSE
    /\ body_exc = NoException
    /\ called = <<>>
    /\ acquired = <<>>
    /\ released = <<>>
    /\ exit_interfered = FALSE
    /\ setups = <<>>
    /\ verify_state = "not_invoked"
    /\ outcome = NoException
    /\ lookup = <<>>
    /\ pub_pc = "idle"
    /\ publication = <<>>
    /\ tagged = {}
    /\ puts = <<>>
    /\ pub_outcome = NoException

(* --------------------------- registry API ----------------------------- *)
\* @states.add(consumer, state_name, mocks) applied to func: add, then outer
Add(consumer, state, arg, f) ==
    /\ pc = "idle"
    /\ registry' = _set(registry, consumer, state, f, DefaultMocks(arg))
    /\ last_reg' = [k \in DOMAIN last_reg \cup {<<consumer, state>>} |->
                       IF k = <<consumer, state>>
                       THEN [func |-> f, mocks |-> DefaultMocks(arg)] ELSE last_reg[k]]
    /\ result' = [op |-> "add", consumer |-> consumer, state_name |-> state,
                  func |-> Plain(f), mocks |-> DefaultMocks(arg),
                  value |-> inner(Plain(f)),
                  replaced |-> (<<consumer, state>> \in DOMAIN registry),
                  exc |-> NoException]
    /\ CallIdle
    /\ UNCHANGED pubVars

\* PactStates.prepare_state called directly: look up, then call func
PrepareState(consumer, state, raises) ==
    /\ pc = "idle"
    /\ LET g == _get(registry, consumer, state) IN
       result' = [op |-> "prepare_state", consumer |-> consumer, state_name |-> state,
                  func |-> IF g.ok THEN Plain(g.func) ELSE Plain(""),
                  mocks |-> <<>>, value |-> Plain(""), replaced |-> FALSE,
                  exc |-> IF ~g.ok THEN g.exc
                          ELSE IF raises THEN SetupError(g.func) ELSE NoException]
    /\ CallIdle
    /\ UNCHANGED <<registry, last_reg, pubVars>>

\* PactStates.get_mocks called directly
GetMocks(consumer, state) ==
    /\ pc = "idle"
    /\ LET g == _get(registry, consumer, state) IN
       result' = [op |-> "get_mocks", consumer |-> consumer, state_name |-> state,
                  func |-> Plain(""), mocks |-> g.mocks, value |-> Plain(""),
                  replaced |-> FALSE, exc |-> g.exc]
    /\ CallIdle
    /\ UNCHANGED <<registry, last_reg, pubVars>>

(* ---------------------------- verify_pacts ---------------------------- *)
\* Python truth value of the singular providerState field (None or a string)
Truthy(providerState) == providerState \notin {"None", ""}

Interactions ==
    [consumer : Consumers,
     providerState : {"None", ""} \cup StateNames,
     providerStates : SeqsUpTo([name : StateNames], MaxStates)]

\* variant: the singular field is tested against None only
ResolveNotNone(i) ==
    IF i.providerState # "None"
    THEN [ok |-> TRUE, state_name |-> i.providerState, exc |-> NoException]
    ELSE IF Len(i.providerStates) = 1
         THEN [ok |-> TRUE, state_name |-> i.providerStates[1].name, exc |-> NoException]
         ELSE [ok |-> FALSE, state_name |-> "", exc |-> AssertionError(i.providerStates)]

\* verify_pacts, the state name: the singular field when truthy, else the
\* single element of the pluralized list, asserted to be single
Resolve(i) ==
    IF Truthy(i.providerState)
    THEN [ok |-> TRUE, state_name |-> i.providerState, exc |-> NoException]
    ELSE IF Len(i.providerStates) = 1
         THEN [ok |-> TRUE, state_name |-> i.providerStates[1].name, exc |-> NoException]
         ELSE [ok |-> FALSE, state_name |-> "", exc |-> AssertionError(i.providerStates)]

\* verify_pacts up to the with statement: resolve state_name and consumer_name
VerifyPacts(i) ==
    /\ pc = "idle"
    /\ FreshCall
    /\ interaction' = i
    /\ LET r == Resolve(i) IN
       IF r.ok
       THEN /\ pc' = "resolved"
            /\ state_name' = r.state_name
            /\ consumer_name' = i.consumer
            /\ outcome' = NoException
       ELSE /\ pc' = "done"
            /\ state_name' = ""
            /\ consumer_name' = ""
            /\ outcome' = r.exc
    /\ result' = NoResult
    /\ UNCHANGED <<registry, last_reg, pubVars>>

\* the with statement's entry: enable_mocks looks the mock list up inside
\* its (still empty) ExitStack; the interaction is not read again
EnterEnableMocks ==
    /\ pc = "resolved"
    /\ interaction' = NoInteraction
    /\ LET g == _get(registry, consumer_name, state_name) IN
       IF g.ok
       THEN /\ mocks' = g.mocks
            /\ pc' = "acquiring"
            /\ outcome' = NoException
       ELSE /\ mocks' = <<>>
            /\ pc' = "done"
            /\ outcome' = g.exc
    /\ lookup' = <<consumer_name, state_name>>
    /\ UNCHANGED <<regVars, pubVars, consumer_name, state_name, idx, stack, pending,
                   yielded, body_exc, called, acquired, released, exit_interfered,
                   setups, verify_state>>

\* variant: the loop stops one element early
LoopDoneEarly(i, l) == i >= Len(l)

\* the for loop over the mock list is exhausted
LoopDone(i, l) == i > Len(l)

\* stack.enter_context(mock()): the factory is called and its result entered
AcquireMock ==
    /\ pc = "acquiring"
    /\ ~LoopDone(idx, mocks)
    /\ called' = Append(called, mocks[idx])
    /\ acquired' = Append(acquired, mocks[idx])
    /\ stack' = enter_context(stack, mocks[idx])
    /\ idx' = idx + 1
    /\ UNCHANGED <<regVars, pubVars, lookup, pc, interaction, consumer_name, state_name,
                   mocks, pending, yielded, body_exc, released, exit_interfered, setups,
                   verify_state, outcome>>

\* stack.enter_context(mock()) raises, in the factory call or in __enter__:
\* nothing is pushed and the ExitStack is left with the exception
AcquireFails(kind) ==
    /\ pc = "acquiring"
    /\ ~LoopDone(idx, mocks)
    /\ called' = Append(called, mocks[idx])
    /\ pending' = MockError(kind, mocks[idx])
    /\ pc' = "unwinding"
    /\ UNCHANGED <<regVars, pubVars, lookup, interaction, consumer_name, state_name, mocks,
                   idx, stack, yielded, body_exc, acquired, released, exit_interfered,
                   setups, verify_state, outcome>>

\* enable_mocks' yield: every mock is entered, the with body starts
Yield ==
    /\ pc = "acquiring"
    /\ LoopDone(idx, mocks)
    /\ yielded' = TRUE
    /\ pc' = "active"
    /\ UNCHANGED <<regVars, pubVars, lookup, interaction, consumer_name, state_name, mocks,
                   idx, stack, pending, body_exc, called, acquired, released,
                   exit_interfered, setups, verify_state, outcome>>

\* the with body: pact_verifier.verify(live_server.url, provider_state)
InvokeVerify ==
    /\ pc = "active"
    /\ pc' = "verifying"
    /\ verify_state' = "running"
    /\ UNCHANGED <<regVars, pubVars, lookup, interaction, consumer_name, state_name, mocks,
                   idx, stack, pending, yielded, body_exc, called, acquired, released,
                   exit_interfered, setups, outcome>>

\* the body of the with statement ends with exception e
BodyRaises(e) ==
    /\ body_exc' = e
    /\ pending' = e
    /\ pc' = "unwinding"
    /\ verify_state' = "ended"

\* the verification routine calls provider_state(interaction, name) for the
\* interaction under verification, whose pact's consumer is consumer_name:
\* prepare_state looks the entry up and calls its func
ProviderState(name) ==
    /\ pc = "verifying"
    /\ Len(setups) < MaxSetups
    /\ LET g == _get(registry, consumer_name, name) IN
       IF g.ok
       THEN /\ setups' = Append(setups, [name |-> name, func |-> g.func])
            /\ pc' = "setup"
            /\ UNCHANGED <<body_exc, pending, verify_state>>
       ELSE /\ BodyRaises(g.exc)
            /\ UNCHANGED setups
    /\ lookup' = <<consumer_name, name>>
    /\ UNCHANGED <<regVars, pubVars, interaction, consumer_name, state_name, mocks, idx,
                   stack, yielded, called, acquired, released, exit_interfered, outcome>>

\* the setup callback returns to the verification routine
SetupReturns ==
    /\ pc = "setup"
    /\ pc' = "verifying"
    /\ UNCHANGED <<regVars, pubVars, lookup, interaction, consumer_name, state_name, mocks,
                   idx, stack, pending, yielded, body_exc, called, acquired, released,
                   exit_interfered, setups, verify_state, outcome>>

\* the setup callback raises
SetupRaises ==
    /\ pc = "setup"
    /\ BodyRaises(SetupError(setups[Len(setups)].func))
    /\ UNCHANGED <<regVars, pubVars, lookup, interaction, consumer_name, state_name, mocks,
                   idx, stack, yielded, called, acquired, released, exit_interfered, setups,
                   outcome>>

\* the verification routine returns
VerifyReturns ==
    /\ pc = "verifying"
    /\ pc' = "unwinding"
    /\ verify_state' = "ended"
    /\ UNCHANGED <<regVars, pubVars, lookup, interaction, consumer_name, state_name, mocks,
                   idx, stack, pending, yielded, body_exc, called, acquired, released,
                   exit_interfered, setups, outcome>>

\* the verification routine raises
VerifyRaises ==
    /\ pc = "verifying"
    /\ BodyRaises(VerificationError)
    /\ UNCHANGED <<regVars, pubVars, lookup, interaction, consumer_name, state_name, mocks,
                   idx, stack, yielded, called, acquired, released, exit_interfered, setups,
                   outcome>>

ExitKinds == {"false", "true", "raise"}

\* ExitStack.__exit__, one callback: the mock's __exit__ gets the exception in
\* flight; a true result suppresses it, an exception of its own replaces it
ExitMock(kind) ==
    /\ pc = "unwinding"
    /\ stack # <<>>
    /\ LET i == NextExit(stack) IN
       /\ released' = Append(released, stack[i])
       /\ stack' = Without(stack, i)
       /\ pending' = CASE kind = "false" -> pending
                       [] kind = "true"  -> NoException
                       [] kind = "raise" -> MockError("exit", stack[i])
       /\ exit_interfered' = (exit_interfered
                              \/ kind = "raise"
                              \/ (kind = "true" /\ pending # NoException))
    /\ UNCHANGED <<regVars, pubVars, lookup, pc, interaction, consumer_name, state_name,
                   mocks, idx, yielded, body_exc, called, acquired, setups, verify_state, outcome>>

\* variant: the exception in flight is dropped
LeaveOutcomeSwallow(exc, hasYielded) == Returned

\* what leaves enable_mocks once the ExitStack is empty: the exception still in
\* flight; else, if the generator never yielded, contextlib's RuntimeError;
\* else a normal return
LeaveOutcome(exc, hasYielded) ==
    IF exc # NoException THEN exc
    ELSE IF ~hasYielded THEN GeneratorDidntYield
    ELSE Returned

\* verify_pacts ends
Leave ==
    /\ pc = "unwinding"
    /\ stack = <<>>
    /\ outcome' = LeaveOutcome(pending, yielded)
    /\ pending' = NoException
    /\ pc' = "done"
    /\ UNCHANGED <<regVars, pubVars, lookup, interaction, consumer_name, state_name, mocks,
                   idx, stack, yielded, body_exc, called, acquired, released, exit_interfered,
                   setups, verify_state>>

\* the caller has taken verify_pacts' result; the next call can start
Finish ==
    /\ pc = "done"
    /\ CallIdle
    /\ UNCHANGED <<regVars, pubVars>>

Next ==
    \/ \E c \in Consumers, s \in StateNames, l \in MockLists : Add(c, s, Given(l), "f1")
    \/ \E i \in Interactions : VerifyPacts(i)
    \/ EnterEnableMocks
    \/ AcquireMock
    \/ \E kind \in {"factory", "enter"} : AcquireFails(kind)
    \/ Yield
    \/ InvokeVerify
    \/ \E name \in StateNames : ProviderState(name)
    \/ SetupReturns
    \/ SetupRaises
    \/ VerifyReturns
    \/ VerifyRaises
    \/ \E kind \in ExitKinds : ExitMock(kind)
    \/ Leave
    \/ Finish

Spec == Init /\ [][Next]_vars

(* ------------------------- registry API runs -------------------------- *)
\* mocks arguments of the registrations of the registry runs
RegMockArgs == {Omitted, Given(<<"m2", "m1">>)}

NextReg ==
    \/ \E c \in Consumers, s \in StateNames, a \in RegMockArgs, f \in Funcs : Add(c, s, a, f)
    \/ \E c \in Consumers, s \in StateNames, raises \in BOOLEAN : PrepareState(c, s, raises)
    \/ \E c \in Consumers, s \in StateNames : GetMocks(c, s)

SpecReg == Init /\ [][NextReg]_vars

(* --------------------------- broker publisher ------------------------- *)
\* a pact file, by the parts of its stem around the separator
PactFiles == {<<c, p, "pact">> : c \in Consumers, p \in {"Shop"}}
                \cup {<<"Orders", "Bank", "pact">>, <<"Orders", "pact">>}

\* what the glob yields: distinct files in some order
PathLists == {l \in SeqsUpTo(PactFiles, MaxFiles) :
                 \A i, j \in DOMAIN l : i # j => l[i] # l[j]}

\* statuses the broker may answer
Statuses == {200, 201, 204, 304, 404, 500}

ValueError == [type |-> "ValueError", msg |-> <<"not enough values to unpack">>]
HTTPError(status) == [type |-> "HTTPError", msg |-> <<ToString(status)>>]

\* variant: only 5xx raises
raise_for_status_ServerOnly(status) == 500 <= status /\ status < 600

\* requests' Response.raise_for_status: raises on 4xx and 5xx
raise_for_status(status) == 400 <= status /\ status < 600

\* find_pacts, one file: consumer, provider, _ = stem.split(sep)
PublicationEntry(file) ==
    [name |-> file,
     url |-> <<"pacts", "provider", file[2], "consumer", file[1], "version">>]

\* find_pacts over the globbed files; unpacking needs exactly three parts
find_pacts(pathlist) ==
    IF \E i \in DOMAIN pathlist : Len(pathlist[i]) # 3
    THEN [ok |-> FALSE, publication |-> <<>>]
    ELSE [ok |-> TRUE,
          publication |-> [i \in DOMAIN pathlist |-> PublicationEntry(pathlist[i])]]

\* get_consumers: the set of name.split(sep, 1)[0]
get_consumers(pub) == {pub[i].name[1] : i \in DOMAIN pub}

TagUrl(participant) == <<"pacticipants", participant, "versions", "tags">>

\* main: find_pacts
Main(pathlist) ==
    /\ pub_pc = "idle"
    /\ LET r == find_pacts(pathlist) IN
       IF r.ok
       THEN /\ publication' = r.publication
            /\ pub_pc' = IF r.publication = <<>> THEN "tagging" ELSE "publishing"
            /\ pub_outcome' = NoException
       ELSE /\ publication' = <<>>
            /\ pub_pc' = "done"
            /\ pub_outcome' = ValueError
    /\ puts' = <<>>
    /\ tagged' = {}
    /\ UNCHANGED <<regVars, callVars>>

\* publish, one iteration: PUT the contract, then raise_for_status
PublishPut(status) ==
    /\ pub_pc = "publishing"
    /\ LET e == publication[Len(puts) + 1] IN
       puts' = Append(puts, [method |-> "PUT", kind |-> "pact", url |-> e.url,
                             status |-> status])
    /\ IF raise_for_status(status)
       THEN /\ pub_pc' = "done"
            /\ pub_outcome' = HTTPError(status)
       ELSE /\ pub_pc' = IF Len(puts') = Len(publication) THEN "tagging" ELSE "publishing"
            /\ UNCHANGED pub_outcome
    /\ UNCHANGED <<regVars, callVars, publication, tagged>>

\* main's loop over get_consumers, one iteration: tag_version
TagPut(consumer, status) ==
    /\ pub_pc = "tagging"
    /\ consumer \in get_consumers(publication) \ tagged
    /\ puts' = Append(puts, [method |-> "PUT", kind |-> "tag", url |-> TagUrl(consumer),
                             status |-> status])
    /\ IF raise_for_status(status)
       THEN /\ pub_pc' = "done"
            /\ pub_outcome' = HTTPError(status)
            /\ UNCHANGED tagged
       ELSE /\ tagged' = tagged \cup {consumer}
            /\ UNCHANGED <<pub_pc, pub_outcome>>
    /\ UNCHANGED <<regVars, callVars, publication>>

\* main returns once every consumer is tagged
MainReturns ==
    /\ pub_pc = "tagging"
    /\ get_consumers(publication) \ tagged = {}
    /\ pub_pc' = "done"
    /\ pub_outcome' = Returned
    /\ UNCHANGED <<regVars, callVars, publication, tagged, puts>>

NextPub ==
    \/ \E l \in PathLists : Main(l)
    \/ \E st \in Statuses : PublishPut(st)
    \/ \E c \in Consumers, st \in Statuses : TagPut(c, st)
    \/ MainReturns

SpecPub == Init /\ [][NextPub]_vars

(* ------------------------------ properties ---------------------------- *)
\* the mock list registered for the key the call resolved
EntryMocks == registry[<<consumer_name, state_name>>].mocks

\* an acquisition failed: a factory was called whose mock was not entered
AcquisitionFailed == ~yielded /\ Len(called) = Len(acquired) + 1

IsError(e) == e.type \notin {"None", "returned"}

\* C1: when acquiring mock K fails, the factories 1..K were called in order and
\* none after K; mocks 1..K-1 were entered and are exited exactly once each in
\* reverse order before verify_pacts ends with an exception; the verification
\* routine and the setup callbacks never run and no mock stays active.
C1_AcquisitionFailureUnwinds ==
    AcquisitionFailed =>
        LET K == Len(called) IN
        /\ pc \in {"unwinding", "done"}
        /\ called = SubSeq(EntryMocks, 1, K)
        /\ acquired = SubSeq(EntryMocks, 1, K - 1)
        /\ released \o Reverse(stack) = Reverse(acquired)
        /\ verify_state = "not_invoked"
        /\ setups = <<>>
        /\ (pc = "unwinding" => outcome = NoException)
        /\ (pc = "done" => /\ stack = <<>>
                           /\ released = Reverse(SubSeq(EntryMocks, 1, K - 1))
                           /\ IsError(outcome))

C1_Witness ==
    /\ pc = "done"
    /\ AcquisitionFailed
    /\ Len(called) = 3
    /\ released = <<called[2], called[1]>>
    /\ outcome = MockError("enter", called[3])

\* C2: the mocks of the resolved entry are acquired in registration order, each
\* once; nothing is released while the mocks are being acquired or the body
\* runs; once the scope is left they have been released in the reverse order,
\* each once.
C2_AcquireInOrderReleaseReversed ==
    /\ pc = "acquiring" =>
          /\ called = SubSeq(EntryMocks, 1, idx - 1)
          /\ acquired = called
          /\ stack = called
          /\ released = <<>>
    /\ pc \in {"active", "verifying", "setup"} =>
          /\ yielded
          /\ called = EntryMocks
          /\ acquired = EntryMocks
          /\ stack = EntryMocks
          /\ released = <<>>
    /\ yielded => (called = EntryMocks /\ acquired = EntryMocks)
    /\ (yielded /\ pc = "unwinding") => released \o Reverse(stack) = Reverse(EntryMocks)
    /\ (yielded /\ pc = "done") => (released = Reverse(EntryMocks) /\ stack = <<>>)
    /\ released # <<>> => pc \in {"unwinding", "done"}

C2_Witness ==
    /\ pc = "done"
    /\ yielded
    /\ acquired = <<"m2", "m3", "m1">>
    /\ released = <<"m1", "m3", "m2">>
    /\ outcome = Returned

\* C3 as stated: when the body of the with statement raised, no mock is active
\* once verify_pacts has ended and verify_pacts ends with that same exception.
C3_BodyExceptionPropagates ==
    (pc = "done" /\ body_exc # NoException) => (stack = <<>> /\ outcome = body_exc)

\* C3 amended: when the setup callback or the verification routine raised, every
\* acquired mock is released, in reverse order, before verify_pacts ends; it
\* ends with that same exception exactly when no mock's exit suppressed it or
\* raised; otherwise it returns normally or raises the mock's exit exception.
C3_BodyExceptionReleasesMocks ==
    (pc = "done" /\ body_exc # NoException) =>
        /\ stack = <<>>
        /\ acquired = EntryMocks
        /\ released = Reverse(acquired)
        /\ verify_state = "ended"
        /\ (~exit_interfered => outcome = body_exc)
        /\ (exit_interfered =>
               \/ outcome = Returned
               \/ \E m \in Range(released) : outcome = MockError("exit", m))

C3_Witness ==
    /\ pc = "done"
    /\ body_exc = VerificationError
    /\ outcome = body_exc
    /\ Len(released) = 3

\* C4: the registry holds, for every key, exactly the callback and mock list of
\* the last registration made for it and nothing for other keys; get_mocks and
\* prepare_state give that mock list and call that callback; a registration,
\* duplicate or not, does not raise.
C4_LastRegistrationWins ==
    /\ DOMAIN registry = DOMAIN last_reg
    /\ \A k \in DOMAIN registry : registry[k] = last_reg[k]
    /\ result.op = "add" =>
          /\ result.exc = NoException
          /\ <<result.consumer, result.state_name>> \in DOMAIN registry
          /\ registry[<<result.consumer, result.state_name>>]
                = [func |-> result.func.calls, mocks |-> result.mocks]
    /\ (result.op = "get_mocks" /\ result.exc = NoException) =>
          /\ <<result.consumer, result.state_name>> \in DOMAIN last_reg
          /\ result.mocks = last_reg[<<result.consumer, result.state_name>>].mocks
    /\ (result.op = "prepare_state" /\ result.exc.type # "ProviderStateError") =>
          /\ <<result.consumer, result.state_name>> \in DOMAIN last_reg
          /\ result.func = Plain(last_reg[<<result.consumer, result.state_name>>].func)

C4_Witness ==
    /\ result.op = "add"
    /\ result.replaced
    /\ Cardinality(DOMAIN registry) = 2
    /\ registry[<<result.consumer, result.state_name>>]
          = [func |-> "f2", mocks |-> <<"m2", "m1">>]

\* C5: a lookup of a key the registry does not hold ends in ProviderStateError
\* naming the consumer and the state; in enable_mocks no mock factory is called
\* and the verification routine is not invoked, in prepare_state no setup
\* callback is invoked for that name; the lookups leave the registry unchanged.
C5_MissingStateProviderFails ==
    /\ [](lookup # <<>> /\ lookup \notin DOMAIN registry =>
            LET e == ProviderStateError(lookup[1], lookup[2]) IN
            /\ lookup[1] \in Range(e.msg)
            /\ lookup[2] \in Range(e.msg)
            /\ IF yielded
               THEN /\ body_exc = e
                    /\ pc \in {"unwinding", "done"}
                    /\ \A i \in DOMAIN setups : setups[i].name # lookup[2]
               ELSE /\ outcome = e
                    /\ pc = "done"
                    /\ called = <<>>
                    /\ setups = <<>>
                    /\ verify_state = "not_invoked")
    /\ [](\A i \in DOMAIN setups :
            /\ <<consumer_name, setups[i].name>> \in DOMAIN registry
            /\ setups[i].func = registry[<<consumer_name, setups[i].name>>].func)
    /\ [][(pc \in {"resolved", "verifying"}) => (registry' = registry)]_vars

C5_Witness ==
    /\ lookup = <<"Orders", "stateB">>
    /\ yielded
    /\ body_exc = ProviderStateError("Orders", "stateB")
    /\ registry # EmptyRegistry

\* the singular state field is present and not empty
SingularPresent(i) == i.providerState # "None" /\ i.providerState # ""

\* C6: the state name is the singular field when present and not empty, whatever
\* the pluralized list holds; otherwise the name of the list's only element;
\* with no or several elements verify_pacts fails before any mock factory is
\* called and before the verification routine is invoked.
C6_ResolvesExactlyOneStateName ==
    /\ pc = "resolved" =>
          /\ consumer_name = interaction.consumer
          /\ IF SingularPresent(interaction)
             THEN state_name = interaction.providerState
             ELSE /\ Len(interaction.providerStates) = 1
                  /\ state_name = interaction.providerStates[1].name
    /\ (pc = "done" /\ interaction # NoInteraction) =>
          /\ ~SingularPresent(interaction)
          /\ Len(interaction.providerStates) # 1
          /\ outcome.type = "AssertionError"
          /\ called = <<>>
          /\ verify_state = "not_invoked"
          /\ lookup = <<>>

C6_Witness ==
    /\ pc = "resolved"
    /\ interaction.providerState = ""
    /\ interaction.providerStates = <<[name |-> "stateB"]>>
    /\ state_name = "stateB"

\* C7 as stated: the assertion failure carries the actual number of elements of
\* the pluralized list.
C7_AssertionNamesCount ==
    (pc = "done" /\ outcome.type = "AssertionError") =>
        ToString(Len(interaction.providerStates)) \in Range(outcome.msg)

\* C7 amended: the assertion failure carries the fixed message "Pact interaction
\* must have exactly one state!" whatever the number of elements, so a failure
\* for no element and one for two elements carry the same value.
C7_AssertionMessageIsFixed ==
    (pc = "done" /\ interaction # NoInteraction) =>
        outcome = [type |-> "AssertionError",
                   msg |-> <<"Pact interaction must have exactly one state!">>]

C7_Witness ==
    /\ pc = "done"
    /\ outcome.type = "AssertionError"
    /\ Len(interaction.providerStates) = 2

\* C8 as stated: the decorator returns the very callback it was given, which is
\* the callback stored in the registry.
C8_ReturnsOriginalCallback ==
    result.op = "add" =>
        /\ result.value = result.func
        /\ Plain(registry[<<result.consumer, result.state_name>>].func) = result.value

\* C8 amended: the decorator stores the callback it was given and returns a
\* wrapper around it, a different callable that calls that callback.
C8_ReturnsWrapperOfCallback ==
    result.op = "add" =>
        /\ result.value # result.func
        /\ result.value.kind = "wrapper"
        /\ result.value.calls = result.func.calls
        /\ Plain(registry[<<result.consumer, result.state_name>>].func) = result.func

C8_Witness ==
    /\ result.op = "add"
    /\ result.func = Plain("f2")
    /\ result.value = [kind |-> "wrapper", calls |-> "f2"]

\* the phase of the verification call
Phase ==
    CASE pc \in {"idle", "resolved", "done"} -> "Idle"
      [] pc = "acquiring" -> "MocksActivating"
      [] pc = "active" -> "MocksActive"
      [] pc = "verifying" -> "Verifying"
      [] pc = "setup" -> "SetupRunning"
      [] pc = "unwinding" -> "MocksTeardown"

StatedOrder == <<"Idle", "MocksActivating", "MocksActive", "SetupRunning", "Verifying",
                 "MocksTeardown", "Idle">>

\* C9 as stated: the phases follow each other in the order Idle, MocksActivating,
\* MocksActive, SetupRunning, Verifying, MocksTeardown, Idle (a failure going
\* straight to MocksTeardown).
C9_PhasesInStatedOrder ==
    [][Phase' # Phase =>
          \/ \E i \in 1..(Len(StatedOrder) - 1) :
                Phase = StatedOrder[i] /\ Phase' = StatedOrder[i + 1]
          \/ Phase' = "MocksTeardown"]_vars

CodeOrder == {<<"Idle", "MocksActivating">>, <<"MocksActivating", "MocksActive">>,
              <<"MocksActivating", "MocksTeardown">>, <<"MocksActive", "Verifying">>,
              <<"Verifying", "SetupRunning">>, <<"SetupRunning", "Verifying">>,
              <<"Verifying", "MocksTeardown">>, <<"SetupRunning", "MocksTeardown">>,
              <<"MocksTeardown", "Idle">>}

\* C9 amended: the phases follow each other in the order Idle, MocksActivating,
\* MocksActive, Verifying, MocksTeardown, Idle, with SetupRunning entered from
\* and left to Verifying any number of times; all mocks of the resolved state
\* are active, none released, while the verification routine or a setup
\* callback runs; a setup callback starts only inside the running verification
\* routine; teardown after the body starts only once that routine has ended.
C9_SetupRunsInsideVerification ==
    /\ [](pc \in {"active", "verifying", "setup"} =>
            /\ stack = EntryMocks
            /\ acquired = EntryMocks
            /\ released = <<>>)
    /\ []((pc = "setup" \/ setups # <<>>) => verify_state # "not_invoked")
    /\ [](pc = "setup" => verify_state = "running")
    /\ []((yielded /\ pc \in {"unwinding", "done"}) => verify_state = "ended")
    /\ [][Phase' # Phase => <<Phase, Phase'>> \in CodeOrder]_vars
    /\ [][Len(setups') > Len(setups) =>
            (Phase = "Verifying" /\ Phase' = "SetupRunning" /\ stack = EntryMocks)]_vars

C9_Witness ==
    /\ pc = "setup"
    /\ Len(stack) = 3
    /\ stack = EntryMocks

Is2xx(status) == 200 <= status /\ status < 300

PactPuts == SelectSeq(puts, LAMBDA r : r.kind = "pact")
TagPuts == SelectSeq(puts, LAMBDA r : r.kind = "tag")

\* C10 as stated: a response that is not 2xx is the last PUT of the run.
C10_Non2xxAborts ==
    \A i \in 1..(Len(puts) - 1) : Is2xx(puts[i].status)

\* C10 amended: the first 4xx or 5xx response to a PUT raises and ends the run,
\* so no PUT follows it; any other status, 2xx or not, lets the run go on.  Only
\* PUTs are sent; the contract PUTs are the publication's, in its order; a tag
\* PUT is sent only after every contract of the batch was PUT without a 4xx
\* or 5xx answer, at most once per consumer, and once for each distinct
\* consumer when main returns.
C10_ErrorStatusAborts ==
    /\ \A i \in DOMAIN puts :
          /\ puts[i].method = "PUT"
          /\ raise_for_status(puts[i].status) =>
                (i = Len(puts) /\ pub_pc = "done" /\ pub_outcome = HTTPError(puts[i].status))
          /\ (400 <= puts[i].status /\ puts[i].status < 600) => i = Len(puts)
          /\ (~(400 <= puts[i].status /\ puts[i].status < 600) /\ i = Len(puts)) =>
                pub_outcome.type # "HTTPError"
    /\ Len(PactPuts) <= Len(publication)
    /\ \A i \in DOMAIN PactPuts : PactPuts[i].url = publication[i].url
    /\ \A i \in DOMAIN puts :
          puts[i].kind = "tag" =>
             /\ i > Len(publication)
             /\ \A j \in 1..Len(publication) : puts[j].kind = "pact"
    /\ \A i, j \in DOMAIN TagPuts : i # j => TagPuts[i].url # TagPuts[j].url
    /\ \A i \in DOMAIN TagPuts :
          \E j \in DOMAIN publication : TagPuts[i].url = TagUrl(publication[j].name[1])
    /\ pub_outcome = Returned =>
          /\ Len(PactPuts) = Len(publication)
          /\ Len(TagPuts) = Cardinality({publication[j].name[1] : j \in DOMAIN publication})

C10_Witness ==
    /\ pub_pc = "done"
    /\ Len(publication) = 2
    /\ Len(puts) = 2
    /\ puts[1].status = 304
    /\ puts[2].status = 404
    /\ pub_outcome = HTTPError(404)

====
